---- MODULE Spec2Model ----
(***************************************************************************)
(* A model of ServerService (src/app/services/server.service.ts): the      *)
(* lifecycle of the environments' servers (start, stop, their listen and   *)
(* kill callbacks, the "environment deleted" subscription), the request    *)
(* log buffers, the registration and dispatch of the routes with the       *)
(* headers applied to a response, the middlewares a request goes through   *)
(* (log, environment latency, route latency), the CORS handler, the proxy  *)
(* and the edits of the configuration store while an environment runs.     *)
(***************************************************************************)
EXTENDS Integers, Sequences, FiniteSets, TLC

\* ------------------------------------------------------------------ bounds

\* Server instances alive at once (a closed or failed one is garbage).
MaxServers == 2
\* Requests logged in one buffer since it was created or cleared.
MaxRequests == 3
\* Config.maxLogsPerEnvironment (server.service.ts:323) is set in
\* src/app/config; the model is parametric in it and checks a small capacity.
maxLogsPerEnvironment == 2
\* Routes of the environment whose routes are registered and dispatched.
MaxRoutes == 2
\* Entries of a header list (of the environment, of a route).
MaxHeaders == 2
\* Requests in the middlewares of one application at once.
MaxInFlight == 2

\* ------------------------------------------------------------------ values

Envs == {"e1", "e2"}
Ports == {3000, 3001}
NoInstance == 0
None == "none"

\* Errors.PORT_ALREADY_USED, Errors.PORT_INVALID and error.message, by the
\* code of the listen error (server.service.ts:92-98).
ErrorCodes == {"EADDRINUSE", "EACCES", "OTHER"}

AlertFor(code) ==
  IF code = "EADDRINUSE" THEN "PORT_ALREADY_USED"
  ELSE IF code = "EACCES" THEN "PORT_INVALID"
  ELSE "error.message"

VARIABLES
  srv,               \* the server instances created by start(), by slot
  instances,         \* this.instances: environment -> server (0: no entry)
  environmentsLogs,  \* this.environmentsLogs: environment -> buffer, if any
  deleted,           \* environments whose "environment deleted" event was received
  misuse,            \* start() was called for an environment not stopped
  last,              \* the last step: the operation and what it reported
  running,           \* the running flag last reported to the configuration store
  store,             \* the environment served, as the configuration store holds it
  app,               \* the express application built by start() for it
  res,               \* the response to the last request it received
  flight             \* the requests in the middlewares of the application

lifecycleVars == <<srv, instances, environmentsLogs, deleted, misuse, last, running>>
servingVars == <<store, app, res, flight>>
vars == <<srv, instances, environmentsLogs, deleted, misuse, last, running, store, app, res,
          flight>>

Servers == 1..MaxServers

\* A slot holding no server instance: none created yet, or one closed or
\* failed and unreferenced.
Free == [st |-> "free", env |-> None, port |-> 0, conns |-> "none", err |-> None]

\* A server instance bound to its port, its listen callback pending.
Bound(e, p) == [st |-> "starting", env |-> e, port |-> p, conns |-> "none", err |-> None]

\* A server instance whose bind to port p failed, its 'error' event pending.
Failing(e, p, code) == [st |-> "failing", env |-> e, port |-> p, conns |-> "none", err |-> code]

FreeSlots == {s \in Servers : srv[s].st = "free"}

\* A server holding its port: bound, its listen callback pending or done.
Live(s) == srv[s].st \in {"starting", "running"}

LiveOf(e) == {s \in Servers : srv[s].env = e /\ Live(s)}

PortInUse(p) == \E s \in Servers : Live(s) /\ srv[s].port = p

NoBuffer == [defined |-> FALSE, entries |-> <<>>]
Buffer(entries) == [defined |-> TRUE, entries |-> entries]

Step(op, e, status, alert) == [op |-> op, env |-> e, status |-> status, alert |-> alert]

InitLifecycle ==
  /\ srv = [s \in Servers |-> Free]
  /\ instances = [e \in Envs |-> NoInstance]
  /\ environmentsLogs = [e \in Envs |-> NoBuffer]
  /\ deleted = [e \in Envs |-> FALSE]
  /\ misuse = FALSE
  /\ last = Step("init", None, None, None)
  /\ running = FALSE

\* ------------------------------------------------------------- lifecycle

\* The outcomes of serverInstance.listen(port): the address is in use when a
\* listener holds the port; otherwise the bind succeeds or fails for another
\* reason (permission denied, any other error).
BindOutcomes(p) ==
  IF PortInUse(p) THEN {"EADDRINUSE"} ELSE {"ok", "EACCES", "OTHER"}

\* start(environment): a new server instance is created and bound; its listen
\* callback or its 'error' event comes later.
Start(e, p) ==
  /\ FreeSlots # {}
  /\ ~deleted[e]
  /\ \E o \in BindOutcomes(p) :
       LET s == CHOOSE f \in FreeSlots : \A g \in FreeSlots : f <= g
       IN srv' = [srv EXCEPT ![s] = IF o = "ok" THEN Bound(e, p) ELSE Failing(e, p, o)]
  /\ misuse' = (misuse \/ instances[e] # NoInstance
                       \/ \E s \in Servers : srv[s].env = e /\ srv[s].st = "starting")
  /\ last' = Step("start", e, None, None)
  /\ UNCHANGED <<instances, environmentsLogs, deleted>>
  /\ UNCHANGED running
  /\ UNCHANGED servingVars

\* The listen callback: the instance is registered and running=true reported.
ListenCallback(s) ==
  /\ srv[s].st = "starting"
  /\ srv' = [srv EXCEPT ![s].st = "running"]
  /\ instances' = [instances EXCEPT ![srv[s].env] = s]
  /\ last' = Step("listening", srv[s].env, "running", None)
  /\ UNCHANGED <<environmentsLogs, deleted, misuse>>
  /\ running' = TRUE
  /\ UNCHANGED servingVars

\* The 'error' handler leaving the failed instance registered.
ListenErrorRegistering(s) ==
  /\ srv[s].st = "failing"
  /\ srv' = [srv EXCEPT ![s] = Free]
  /\ instances' = [instances EXCEPT ![srv[s].env] = s]
  /\ last' = Step("listenError", srv[s].env, None, AlertFor(srv[s].err))
  /\ UNCHANGED <<environmentsLogs, deleted, misuse>>
  /\ UNCHANGED running
  /\ UNCHANGED servingVars

\* The 'error' handler of the server instance.
ListenError(s) ==
  /\ srv[s].st = "failing"
  /\ srv' = [srv EXCEPT ![s] = Free]
  /\ last' = Step("listenError", srv[s].env, None, AlertFor(srv[s].err))
  /\ UNCHANGED <<instances, environmentsLogs, deleted, misuse>>
  /\ UNCHANGED running
  /\ UNCHANGED servingVars

\* kill() as a plain close(): the open connections are left to their clients.
KillKeepingConnections(s) ==
  [srv EXCEPT ![s].st = IF srv[s].st = "running" THEN "closing" ELSE @,
              ![s].port = 0]

\* instance.kill(callback) of killable: the listener is closed, the open
\* connections are destroyed, the callback runs once the server has closed.
Kill(s) ==
  [srv EXCEPT ![s].st = IF srv[s].st = "running" THEN "closing" ELSE @,
              ![s].port = 0,
              ![s].conns = IF @ = "open" THEN "destroyed" ELSE @]

\* stop() killing a server of the environment whether registered or not.
StoppedUnregistered(e) ==
  IF \E s \in Servers : srv[s].env = e /\ srv[s].st \in {"starting", "running"}
  THEN LET s == CHOOSE x \in Servers :
                  srv[x].env = e /\ srv[x].st \in {"starting", "running"}
       IN [srv EXCEPT ![s].st = "closing", ![s].port = 0]
  ELSE srv

\* The servers after stop(environmentUUID).
Stopped(e) ==
  IF instances[e] # NoInstance THEN Kill(instances[e]) ELSE srv

\* stop() dropping the registry entry at once, the server left listening.
StopForgetting(e) ==
  /\ instances' = [instances EXCEPT ![e] = NoInstance]
  /\ last' = Step("stop", e, None, None)
  /\ UNCHANGED <<srv, environmentsLogs, deleted, misuse>>
  /\ UNCHANGED running
  /\ UNCHANGED servingVars

\* stop(environmentUUID)
Stop(e) ==
  /\ srv' = Stopped(e)
  /\ last' = Step("stop", e, None, None)
  /\ UNCHANGED <<instances, environmentsLogs, deleted, misuse>>
  /\ UNCHANGED running
  /\ UNCHANGED servingVars

\* The callback of kill: the registry entry of the environment is deleted and
\* running=false reported.
KillCallback(s) ==
  /\ srv[s].st = "closing"
  /\ srv[s].conns # "open"
  /\ srv' = [srv EXCEPT ![s] = Free]
  /\ instances' = [instances EXCEPT ![srv[s].env] = NoInstance]
  /\ last' = Step("killed", srv[s].env, "stopped", None)
  /\ UNCHANGED <<environmentsLogs, deleted, misuse>>
  /\ running' = FALSE
  /\ UNCHANGED servingVars

\* The subscription to eventsService.environmentDeleted: stop, then delete
\* the logs.
EnvironmentDeleted(e) ==
  /\ ~deleted[e]
  /\ deleted' = [deleted EXCEPT ![e] = TRUE]
  /\ srv' = Stopped(e)
  /\ environmentsLogs' = [environmentsLogs EXCEPT ![e] = NoBuffer]
  /\ last' = Step("environmentDeleted", e, None, None)
  /\ UNCHANGED <<instances, misuse>>
  /\ UNCHANGED running
  /\ UNCHANGED servingVars

\* ------------------------------------------------------------------- logs

\* logRequests putting the entry of a request twice in the buffer.
LoggedTwice(buffer, entry) ==
  LET entries == IF buffer.defined THEN buffer.entries ELSE <<>>
  IN [defined |-> TRUE, entries |-> <<entry, entry>> \o entries]

\* logRequests with the entry removed at the front instead of the end.
LoggedShift(buffer, entry) ==
  LET entries == IF buffer.defined THEN buffer.entries ELSE <<>>
      kept == IF Len(entries) >= maxLogsPerEnvironment /\ Len(entries) > 0
              THEN Tail(entries)
              ELSE entries
  IN [defined |-> TRUE, entries |-> <<entry>> \o kept]

\* The middleware of logRequests: the buffer is created if missing, one entry
\* is removed at the end when the maximum is reached, the new one is put first.
Logged(buffer, entry) ==
  LET entries == IF buffer.defined THEN buffer.entries ELSE <<>>
      kept == IF Len(entries) >= maxLogsPerEnvironment /\ Len(entries) > 0
              THEN SubSeq(entries, 1, Len(entries) - 1)
              ELSE entries
  IN Buffer(<<entry>> \o kept)

RECURSIVE Newest(_)
Newest(entries) ==
  IF entries = <<>> THEN 0
  ELSE LET rest == Newest(Tail(entries))
       IN IF Head(entries) > rest THEN Head(entries) ELSE rest

\* dataService.formatRequestLog(req): the entry of a request is identified by
\* its rank among the requests logged in the buffer since it was created or
\* cleared (the order of the entries' timestamps).
FormatRequestLog(buffer) == Newest(buffer.entries) + 1

\* A request received by a listening server: it is logged, then suspended in
\* the latency wait of setEnvironmentLatency.
Request(s) ==
  /\ srv[s].st = "running"
  /\ FormatRequestLog(environmentsLogs[srv[s].env]) <= MaxRequests
  /\ environmentsLogs' = [environmentsLogs EXCEPT
                            ![srv[s].env] = Logged(@, FormatRequestLog(@))]
  /\ srv' = [srv EXCEPT ![s].conns = "open"]
  /\ last' = Step("request", srv[s].env, None, None)
  /\ UNCHANGED <<instances, deleted, misuse>>
  /\ UNCHANGED running
  /\ UNCHANGED servingVars

\* The last open connection of a server ends: its request is answered and
\* its client closes it.
ConnectionsClosed(s) ==
  /\ srv[s].conns = "open"
  /\ srv' = [srv EXCEPT ![s].conns = "none"]
  /\ last' = Step("connectionsClosed", srv[s].env, None, None)
  /\ UNCHANGED <<instances, environmentsLogs, deleted, misuse>>
  /\ UNCHANGED running
  /\ UNCHANGED servingVars

\* clearEnvironmentLogs(environmentUuid)
ClearEnvironmentLogs(e) ==
  /\ ~deleted[e]
  /\ environmentsLogs' = [environmentsLogs EXCEPT ![e] = Buffer(<<>>)]
  /\ last' = Step("clearLogs", e, None, None)
  /\ UNCHANGED <<srv, instances, deleted, misuse>>
  /\ UNCHANGED running
  /\ UNCHANGED servingVars

\* deleteEnvironmentLogs(environmentUUID)
DeleteEnvironmentLogs(e) ==
  /\ environmentsLogs' = [environmentsLogs EXCEPT ![e] = NoBuffer]
  /\ last' = Step("deleteLogs", e, None, None)
  /\ UNCHANGED <<srv, instances, deleted, misuse>>
  /\ UNCHANGED running
  /\ UNCHANGED servingVars

\* ------------------------------------------------------------ environments

Methods == {"get", "options"}

\* environment.endpointPrefix and route.endpoint are texts, held as the
\* sequence of their fragments: a name, a space, an escaped space, a route
\* parameter, an unterminated group.
Prefixes == {<<>>, <<"api">>}
Endpoints == {<<"a">>, <<":id">>, <<"a", " ", "b">>, <<"(">>}

\* The paths of the requests: a segment under no prefix or under /api.
Segments == {<<"a">>, <<":id">>, <<"a", "%20", "b">>, <<"(">>}
Paths == {<<"/">> \o pre \o seg : pre \in {<<>>, <<"api", "/">>}, seg \in Segments}
\* req.body is the text read by the body parser, held as the sequence of its
\* characters; these requests have none.
Requests == [method : Methods, path : Paths, body : {<<>>}]

\* A header key is held as the sequence of its fragments; the characters of
\* these fragments are all in the class of testHeaderValidity
\* (server.service.ts:124), the characters of the others are not.
TokenFragments ==
  {"X-A", "X", "A", "Content-Type", "Content-Disposition",
   "Access-Control-Allow-Origin", "Access-Control-Allow-Headers"}

ContentType == <<"Content-Type">>
ContentDisposition == <<"Content-Disposition">>

\* The keys of the configured header entries: three valid ones, one with a
\* space, one with a colon, the empty one.
HeaderKeys ==
  {<<"X-A">>, ContentType, ContentDisposition, <<"X", " ", "A">>, <<"X", ":">>, <<>>}

\* The header names of a response.
HeaderNames ==
  HeaderKeys \cup {<<"Access-Control-Allow-Origin">>,
                   <<"Access-Control-Allow-Headers">>}

\* CORSHeaders of src/app/types/route.type
CORSHeaders ==
  << [key |-> <<"Access-Control-Allow-Origin">>, value |-> "*"],
     [key |-> <<"Access-Control-Allow-Headers">>, value |-> "Content-Type"] >>

\* A route as the configuration store holds it; its status code tells it from
\* the other routes of its environment.
Route(uuid, method, endpoint) ==
  [uuid |-> uuid, method |-> method, endpoint |-> endpoint,
   statusCode |-> 200 + uuid, headers |-> <<>>, body |-> "v1",
   filePath |-> "", sendFileAsBody |-> FALSE, duplicates |-> {}, latency |-> 0]

\* route.duplicates as the store computes it: the indices of the other routes
\* of the environment with the same method and endpoint.
WithDuplicates(routes) ==
  [i \in DOMAIN routes |->
     [routes[i] EXCEPT !.duplicates =
        {j \in DOMAIN routes :
           /\ j # i
           /\ routes[j].method = routes[i].method
           /\ routes[j].endpoint = routes[i].endpoint}]]

Environment(prefix, routes, headers, cors, proxyMode, proxyHost) ==
  [endpointPrefix |-> prefix, routes |-> WithDuplicates(routes),
   headers |-> headers, cors |-> cors,
   proxyMode |-> proxyMode, proxyHost |-> proxyHost, latency |-> 0]

NoEnvironment == Environment(<<>>, <<>>, <<>>, FALSE, FALSE, "")

\* The express application: none before start(); then the environment passed
\* to start(), the handlers in the order of their registration and the alerts
\* of the registration.
NotStarted == [started |-> FALSE, environment |-> NoEnvironment, stack |-> <<>>, alerts |-> {}]

NoHeaders == [k \in HeaderNames |-> None]

NoRequest == [method |-> None, path |-> <<>>, body |-> <<>>]

\* A response being built: the handler it belongs to, what was set on it,
\* whether it was sent, the alert shown, the exception left uncaught and the
\* request made to the upstream when it is proxied.
Response(by, uuid, req, status) ==
  [by |-> by, route |-> uuid, req |-> req, status |-> status,
   headers |-> NoHeaders, body |-> "", sent |-> FALSE, alert |-> None,
   threw |-> None, proxyReq |-> None]

NoResponse == Response(None, 0, NoRequest, 0)

InFlight == 1..MaxInFlight

\* A request in the middlewares of the application, as it is once logged and
\* held by setEnvironmentLatency: where it waits, the environment latency
\* read for its timer, the handler that took it with the latency of its route,
\* the list of environment headers applied to its response, its response and
\* the values of the environment read for it so far.
Received(req, environment) ==
  [stage |-> "latency", req |-> req, latency |-> environment.latency,
   handler |-> 0, routeLatency |-> 0, headers |-> <<>>,
   response |-> NoResponse, read |-> {environment}]

\* ------------------------------------------------------------------ headers

\* testHeaderValidity(headerName): TRUE when the name holds a character out
\* of the class.
TestHeaderValidityNever(headerName) == FALSE

TestHeaderValidity(headerName) ==
  /\ headerName # <<>>
  /\ \E i \in DOMAIN headerName : headerName[i] \notin TokenFragments

\* DummyJSONParser(template, req) of src/app/libs/dummy-helpers.lib: the text
\* rendered for the request, or the error thrown.
DummyJSONParser(template, req) ==
  CASE template = "{{#bad" -> [error |-> "Parse error", text |-> ""]
    [] template = "{{nohelper}}" -> [error |-> "Missing helper", text |-> ""]
    [] template = "{{method}}" -> [error |-> None, text |-> req.method]
    [] OTHER -> [error |-> None, text |-> template]

\* res.set(key, value)
ResSet(response, key, value) == [response EXCEPT !.headers[key] = value]

\* setHeaders(headers, req, res): each entry with a key, a value and a valid
\* key is rendered and set, in order; an error thrown by the rendering ends
\* the loop and is not caught.
RECURSIVE SetHeaders(_, _, _)
SetHeaders(headers, req, response) ==
  IF headers = <<>> \/ response.threw # None THEN response
  ELSE LET header == Head(headers)
           value == DummyJSONParser(header.value, req)
           applied ==
             IF header.key # <<>> /\ header.value # "" /\ ~TestHeaderValidity(header.key)
             THEN IF value.error # None
                  THEN [response EXCEPT !.threw = value.error]
                  ELSE ResSet(response, header.key, value.text)
             ELSE response
       IN SetHeaders(Tail(headers), req, applied)

\* Both header lists of a route applied, the route's first.
ApplyHeadersRouteFirst(environment, route, req, response) ==
  SetHeaders(environment.headers, req, SetHeaders(route.headers, req, response))

\* this.setHeaders(environment.headers, req, res);
\* this.setHeaders(route.headers, req, res);
ApplyHeaders(environment, route, req, response) ==
  SetHeaders(route.headers, req, SetHeaders(environment.headers, req, response))

\* Utils.getRouteContentType(environment, route) of src/app/libs/utils.lib:
\* the value of the Content-Type entry of the route if it has one with a
\* value, else the one of the environment, else none.
ContentTypeOf(headers) ==
  LET found == SelectSeq(headers, LAMBDA h : h.key = ContentType)
  IN IF found # <<>> THEN Head(found).value ELSE ""

GetRouteContentType(environment, route) ==
  IF ContentTypeOf(route.headers) # "" THEN ContentTypeOf(route.headers)
  ELSE ContentTypeOf(environment.headers)

\* ------------------------------------------------------------------- bodies

\* The files of the disk and what they hold; mimeTypes.lookup by extension.
Files == {"data.json", "broken.json", "photo.png"}

FileContent(path) ==
  CASE path = "data.json" -> "{{method}}"
    [] path = "broken.json" -> "{{#bad"
    [] OTHER -> "bytes"

MimeLookup(path) ==
  IF path \in {"data.json", "broken.json", "missing.json"} THEN "application/json"
  ELSE IF path = "photo.png" THEN "image/png"
  ELSE "false"

\* mimeTypesWithTemplating of src/app/types/route.type
mimeTypesWithTemplating == {"application/json", "text/html", "text/plain"}

\* The media types that content-type parses and the texts that JSON parses.
MediaTypes == {"application/json", "text/html", "text/plain", "image/png", "false"}
JsonTexts == {"[1]"}

\* sendError(res, errorMessage, showAlert)
SendError(response, errorMessage, showAlert) ==
  [ResSet(response, ContentType, "text/plain") EXCEPT
     !.alert = IF showAlert THEN errorMessage ELSE @,
     !.body = errorMessage,
     !.sent = TRUE]

\* res.send(body) and res.json(body): the Content-Type set is parsed when the
\* body is a text and a default one is set when there is none.
Send(response, body, text, default) ==
  IF text /\ response.headers[ContentType] \notin MediaTypes \cup {None}
  THEN [response EXCEPT !.threw = "invalid media type"]
  ELSE [response EXCEPT !.body = body, !.sent = TRUE,
                        !.headers[ContentType] = IF @ = None THEN default ELSE @]

\* res.end() in a catch block: the response is ended as it is.
End(response) == [response EXCEPT !.sent = TRUE]

\* The file branch of the handler of a route (server.service.ts:176-207).
FileBody(environment, route, req, response) ==
  LET filePath == DummyJSONParser(route.filePath, req)
      fileMimeType == MimeLookup(route.filePath)
      typed == IF GetRouteContentType(environment, route) = ""
               THEN ResSet(response, ContentType, fileMimeType)
               ELSE response
      templated == fileMimeType \in mimeTypesWithTemplating
      fileContent == IF templated
                     THEN DummyJSONParser(FileContent(filePath.text), req)
                     ELSE [error |-> None, text |-> FileContent(filePath.text)]
      disposed == IF ~route.sendFileAsBody
                  THEN ResSet(typed, ContentDisposition, "attachment")
                  ELSE typed
      sent == Send(disposed, fileContent.text, templated, "application/octet-stream")
  IN IF filePath.error = "Parse error" THEN SendError(response, "TEMPLATE_PARSE", FALSE)
     ELSE IF filePath.error # None THEN End(response)
     ELSE IF filePath.text \notin Files THEN SendError(typed, "FILE_NOT_EXISTS", FALSE)
     ELSE IF fileContent.error = "Parse error" THEN SendError(typed, "TEMPLATE_PARSE", FALSE)
     ELSE IF fileContent.error # None THEN End(typed)
     ELSE IF sent.threw # None THEN End(disposed)
     ELSE sent

\* The inline body branch (server.service.ts:208-233).
InlineBody(environment, route, req, response) ==
  LET rendered == DummyJSONParser(route.body, req)
      json == Send(response, rendered.text, TRUE, "application/json")
      sent == Send(response, rendered.text, TRUE, "text/html")
  IN IF GetRouteContentType(environment, route) = "application/json"
     THEN IF rendered.error = "Parse error" THEN SendError(response, "JSON_PARSE", TRUE)
          ELSE IF rendered.error = "Missing helper" THEN SendError(response, "MISSING_HELPER", TRUE)
          ELSE IF rendered.text \notin JsonTexts THEN SendError(response, "JSON_PARSE", TRUE)
          ELSE IF json.threw # None THEN End(response)
          ELSE json
     ELSE IF rendered.error # None THEN End(response)
          ELSE IF sent.threw # None THEN SendError(response, "INVALID_CONTENT_TYPE", TRUE)
          ELSE sent

\* The handler of a route, run after the route's latency: the status is set,
\* the headers applied, the body resolved. An error thrown by the rendering
\* of a header value is caught by nothing: no response is sent.
RouteHandler(environment, route, req) ==
  LET response == ApplyHeaders(environment, route, req,
                               Response("route", route.uuid, req, route.statusCode))
  IN IF response.threw # None THEN response
     ELSE IF route.filePath # "" THEN FileBody(environment, route, req, response)
     ELSE InlineBody(environment, route, req, response)

\* The handler of setCors overriding the CORS headers with the headers of the
\* environment passed to start().
CorsHandlerAtStart(environment, req) ==
  LET response == SetHeaders(app.environment.headers, req,
                             SetHeaders(CORSHeaders, req, Response("cors", 0, req, 200)))
  IN IF response.threw # None
     THEN [response EXCEPT !.status = 500, !.body = "Internal Server Error",
                           !.headers[ContentType] = "text/html", !.sent = TRUE]
     ELSE Send(response, "OK", TRUE, "text/plain")

\* The handler of setCors: the CORS headers, then the headers the store holds
\* for the environment at the time of the request, status 200. An error
\* thrown by the rendering of a header value is thrown to express, whose
\* error handler answers 500.
CorsHandler(environment, req) ==
  LET response == SetHeaders(environment.headers, req,
                             SetHeaders(CORSHeaders, req, Response("cors", 0, req, 200)))
  IN IF response.threw # None
     THEN [response EXCEPT !.status = 500, !.body = "Internal Server Error",
                           !.headers[ContentType] = "text/html", !.sent = TRUE]
     ELSE Send(response, "OK", TRUE, "text/plain")

\* Buffer.byteLength(body): the bytes of the UTF-8 encoding of a text, one
\* for an ASCII character, two for the accented letter "eacute".
Bytes(char) == IF char = "eacute" THEN 2 ELSE 1

RECURSIVE ByteLength(_)
ByteLength(body) ==
  IF body = <<>> THEN 0 ELSE Bytes(Head(body)) + ByteLength(Tail(body))

\* processRequest, the onProxyReq hook: the request is marked as proxied;
\* when it has a body the Content-Length of the request to the upstream is
\* set to its length in bytes and the body is written to it.
ProcessRequest(req) ==
  IF req.body # <<>>
  THEN [proxied |-> TRUE, contentLength |-> ByteLength(req.body), body |-> req.body]
  ELSE [proxied |-> TRUE, contentLength |-> None, body |-> <<>>]

\* The proxy middleware makes the request to the upstream and relays its
\* response; with no handler left express answers 404.
Proxied(req) ==
  [Response("proxy", 0, req, 0) EXCEPT
     !.body = "upstream", !.sent = TRUE, !.proxyReq = ProcessRequest(req)]
NotFound(req) == [Response("notFound", 0, req, 404) EXCEPT !.sent = TRUE]

\* ------------------------------------------------------------------- routes

\* route.endpoint.replace(/ /g, '%20')
EscapeSpaces(endpoint) ==
  [i \in DOMAIN endpoint |-> IF endpoint[i] = " " THEN "%20" ELSE endpoint[i]]

\* The path a route is registered at:
\* '/' + (prefix ? prefix + '/' : '') + the endpoint, its spaces escaped.
RoutePath(environment, route) ==
  <<"/">> \o (IF environment.endpointPrefix # <<>>
              THEN environment.endpointPrefix \o <<"/">>
              ELSE <<>>)
          \o EscapeSpaces(route.endpoint)

\* express compiles the path when the route is registered and throws
\* 'Invalid regular expression' for an unterminated group.
ValidPattern(path) == \A i \in DOMAIN path : path[i] # "("

\* The match of a path by a compiled pattern: a parameter matches the
\* fragments of one segment, any other fragment matches itself.
RECURSIVE Matches(_, _)
Matches(pattern, path) ==
  IF pattern = <<>> THEN path = <<>>
  ELSE IF Head(pattern) = ":id"
  THEN \E n \in 1..Len(path) :
         /\ \A i \in 1..n : path[i] # "/"
         /\ Matches(Tail(pattern), SubSeq(path, n + 1, Len(path)))
  ELSE /\ path # <<>>
       /\ Head(pattern) = Head(path)
       /\ Matches(Tail(pattern), Tail(path))

\* setRoutes registering the duplicated routes too.
RegistersDuplicated(environment, route) ==
  ValidPattern(RoutePath(environment, route))

\* The routes setRoutes registers: those with no duplicate whose path
\* compiles.
Registers(environment, route) ==
  /\ route.duplicates = {}
  /\ ValidPattern(RoutePath(environment, route))

Handler(kind, route, path) == [kind |-> kind, route |-> route, path |-> path]

NoRoute == Route(0, None, <<>>)

\* setRoutes(server, environment): the handlers registered, in the order of
\* the routes.
SetRoutes(environment) ==
  LET registered == SelectSeq(environment.routes,
                              LAMBDA route : Registers(environment, route))
  IN [i \in DOMAIN registered |->
        Handler("route", registered[i], RoutePath(environment, registered[i]))]

\* The alerts of setRoutes: Errors.INVALID_ROUTE_REGEX + route.endpoint
InvalidRouteRegex(environment) ==
  {route.endpoint : route \in
     {environment.routes[i] : i \in
        {j \in DOMAIN environment.routes :
           /\ environment.routes[j].duplicates = {}
           /\ ~ValidPattern(RoutePath(environment, environment.routes[j]))}}}

\* setCors(server, environment): server.options('/*', ...) if cors is set.
SetCors(environment) ==
  IF environment.cors THEN <<Handler("cors", NoRoute, <<>>)>> ELSE <<>>

\* isValidURL(address): new URL(address) throws unless the address is an
\* absolute URL.
AbsoluteURLs == {"http://upstream"}
IsValidURL(address) == address \in AbsoluteURLs

\* enableProxy adding the proxy for any host given.
EnableProxyAnyHost(environment) ==
  IF environment.proxyMode /\ environment.proxyHost # ""
  THEN <<Handler("proxy", NoRoute, <<>>)>>
  ELSE <<>>

\* enableProxy(server, environment): server.use('*', proxy(...))
EnableProxy(environment) ==
  IF environment.proxyMode /\ environment.proxyHost # "" /\ IsValidURL(environment.proxyHost)
  THEN <<Handler("proxy", NoRoute, <<>>)>>
  ELSE <<>>

\* setCors called before setRoutes.
PipelineCorsFirst(environment) ==
  SetCors(environment) \o SetRoutes(environment) \o EnableProxy(environment)

\* The handlers of an environment in the order start() registers them: the
\* routes, the CORS handler, the proxy.
Pipeline(environment) ==
  SetRoutes(environment) \o SetCors(environment) \o EnableProxy(environment)

\* Whether a registered handler takes a request.
Handles(handler, req) ==
  CASE handler.kind = "route" ->
         handler.route.method = req.method /\ Matches(handler.path, req.path)
    [] handler.kind = "cors" -> req.method = "options"
    [] handler.kind = "proxy" -> TRUE

\* express running the last registered handler that takes the request.
RespondLast(req) ==
  LET hits == {i \in DOMAIN app.stack : Handles(app.stack[i], req)}
  IN IF hits = {} THEN NotFound(req)
     ELSE LET handler == app.stack[CHOOSE i \in hits : \A j \in hits : i >= j]
          IN CASE handler.kind = "route" -> RouteHandler(app.environment, handler.route, req)
               [] handler.kind = "cors" -> CorsHandler(store, req)
               [] handler.kind = "proxy" -> Proxied(req)

\* express looking for the handler of a request among those that start()
\* would register for the environment as the store holds it now.
RespondFromStore(req) ==
  LET stack == Pipeline(store)
      hits == {i \in DOMAIN stack : Handles(stack[i], req)}
  IN IF hits = {} THEN NotFound(req)
     ELSE LET handler == stack[CHOOSE i \in hits : \A j \in hits : i <= j]
          IN CASE handler.kind = "route" -> RouteHandler(app.environment, handler.route, req)
               [] handler.kind = "cors" -> CorsHandler(store, req)
               [] handler.kind = "proxy" -> Proxied(req)

\* express runs the first registered handler that takes the request; none of
\* the handlers passes it on.
Respond(req) ==
  LET hits == {i \in DOMAIN app.stack : Handles(app.stack[i], req)}
  IN IF hits = {} THEN NotFound(req)
     ELSE LET handler == app.stack[CHOOSE i \in hits : \A j \in hits : i <= j]
          IN CASE handler.kind = "route" -> RouteHandler(app.environment, handler.route, req)
               [] handler.kind = "cors" -> CorsHandler(store, req)
               [] handler.kind = "proxy" -> Proxied(req)

\* start(environment), the part building the express application for the
\* environment as it is now.
StartServing ==
  /\ ~app.started
  /\ app' = [started |-> TRUE, environment |-> store,
             stack |-> Pipeline(store),
             alerts |-> InvalidRouteRegex(store)]
  /\ res' = NoResponse
  /\ UNCHANGED store
  /\ UNCHANGED flight
  /\ UNCHANGED lifecycleVars

\* stop(environmentUUID) of the started environment: its application is gone.
StopServing ==
  /\ app.started
  /\ app' = NotStarted
  /\ res' = NoResponse
  /\ UNCHANGED store
  /\ UNCHANGED flight
  /\ UNCHANGED lifecycleVars

\* A request received by the started environment and answered.
Serve(req) ==
  /\ app.started
  /\ res' = Respond(req)
  /\ UNCHANGED <<store, app>>
  /\ UNCHANGED flight
  /\ UNCHANGED lifecycleVars

\* The identifier of a new route: the first one no route of the list has.
FreshUuid(routes) ==
  CHOOSE u \in 1..(Len(routes) + 1) :
    /\ \A i \in DOMAIN routes : routes[i].uuid # u
    /\ \A v \in 1..(u - 1) : \E i \in DOMAIN routes : routes[i].uuid = v

\* The configuration store adds a route to the environment and computes the
\* duplicates again.
AddRoute(method, endpoint) ==
  /\ Len(store.routes) < MaxRoutes
  /\ store' = [store EXCEPT !.routes =
                 WithDuplicates(Append(@, Route(FreshUuid(@), method, endpoint)))]
  /\ UNCHANGED <<app, res>>
  /\ UNCHANGED flight
  /\ UNCHANGED lifecycleVars

\* The configuration store removes a route of the environment.
RemoveRoute(i) ==
  /\ i \in DOMAIN store.routes
  /\ store' = [store EXCEPT !.routes =
                 WithDuplicates(SubSeq(@, 1, i - 1) \o SubSeq(@, i + 1, Len(@)))]
  /\ UNCHANGED <<app, res>>
  /\ UNCHANGED flight
  /\ UNCHANGED lifecycleVars

\* The configuration store moves a route of the environment before the
\* previous one.
MoveRoute(i) ==
  /\ i \in DOMAIN store.routes
  /\ i > 1
  /\ store' = [store EXCEPT !.routes =
                 WithDuplicates([@ EXCEPT ![i - 1] = store.routes[i],
                                          ![i] = store.routes[i - 1]])]
  /\ UNCHANGED <<app, res>>
  /\ UNCHANGED flight
  /\ UNCHANGED lifecycleVars

\* The configuration store sets or unsets CORS for the environment.
ToggleCors ==
  /\ store' = [store EXCEPT !.cors = ~@]
  /\ UNCHANGED <<app, res>>
  /\ UNCHANGED flight
  /\ UNCHANGED lifecycleVars

\* The configuration store changes the proxy settings of the environment.
SetProxy(proxyMode, proxyHost) ==
  /\ store' = [store EXCEPT !.proxyMode = proxyMode, !.proxyHost = proxyHost]
  /\ store' # store
  /\ UNCHANGED <<app, res>>
  /\ UNCHANGED flight
  /\ UNCHANGED lifecycleVars

\* ------------------------------------------------------------- middlewares

\* environment.uuid of the environment served.
Uuid == "e1"

\* The handler express runs for a request, by its rank in the registration
\* order: the first that takes it, 0 when none does.
Dispatch(req) ==
  LET hits == {i \in DOMAIN app.stack : Handles(app.stack[i], req)}
  IN IF hits = {} THEN 0 ELSE CHOOSE i \in hits : \A j \in hits : i <= j

\* The handler of a route setting the status code before it starts the timer
\* of the route's latency.
RoutedStatusFirst(request) ==
  LET hit == Dispatch(request.req)
      handler == app.stack[hit]
  IN IF hit = 0
     THEN [request EXCEPT !.stage = "answered", !.response = NotFound(request.req)]
     ELSE CASE handler.kind = "route" ->
                 [request EXCEPT !.stage = "routeLatency", !.handler = hit,
                                 !.routeLatency = handler.route.latency,
                                 !.response = Response("route", handler.route.uuid,
                                                       request.req, handler.route.statusCode),
                                 !.read = @ \cup {app.environment}]
            [] handler.kind = "cors" ->
                 [request EXCEPT !.stage = "answered", !.handler = hit,
                                 !.headers = store.headers,
                                 !.response = CorsHandler(store, request.req),
                                 !.read = @ \cup {store}]
            [] handler.kind = "proxy" ->
                 [request EXCEPT !.stage = "answered", !.handler = hit,
                                 !.response = Proxied(request.req)]

\* next() called by the timer of setEnvironmentLatency: express runs the
\* handler of the request. The one of a route starts the timer of the
\* route's latency and does nothing else; the one of setCors and the proxy
\* answer at once; with no handler express answers 404.
Routed(request) ==
  LET hit == Dispatch(request.req)
      handler == app.stack[hit]
  IN IF hit = 0
     THEN [request EXCEPT !.stage = "answered", !.response = NotFound(request.req)]
     ELSE CASE handler.kind = "route" ->
                 [request EXCEPT !.stage = "routeLatency", !.handler = hit,
                                 !.routeLatency = handler.route.latency,
                                 !.read = @ \cup {app.environment}]
            [] handler.kind = "cors" ->
                 [request EXCEPT !.stage = "answered", !.handler = hit,
                                 !.headers = store.headers,
                                 !.response = CorsHandler(store, request.req),
                                 !.read = @ \cup {store}]
            [] handler.kind = "proxy" ->
                 [request EXCEPT !.stage = "answered", !.handler = hit,
                                 !.response = Proxied(request.req)]

\* The callback of the timer of a route's latency: the handler of the route
\* builds the response from the environment and the route passed to start().
\* When it throws, nothing catches the error and nothing is sent.
Handled(request) ==
  LET response == RouteHandler(app.environment, app.stack[request.handler].route,
                               request.req)
  IN [request EXCEPT !.stage = IF response.sent THEN "answered" ELSE "thrown",
                     !.headers = app.environment.headers,
                     !.response = response]

\* A request enters the application: the middleware of logRequests puts its
\* entry in the buffer of the environment, the one of setEnvironmentLatency
\* reads the latency the store holds now and starts its timer.
Receive(req) ==
  /\ app.started
  /\ Len(flight) < MaxInFlight
  /\ environmentsLogs' = [environmentsLogs EXCEPT
                            ![Uuid] = Logged(@, FormatRequestLog(@))]
  /\ flight' = Append(flight, Received(req, store))
  /\ UNCHANGED <<store, app, res>>
  /\ UNCHANGED <<srv, instances, deleted, misuse, last, running>>

\* The timer of setEnvironmentLatency fires for a request.
LatencyElapsed(i) ==
  /\ i \in DOMAIN flight
  /\ flight[i].stage = "latency"
  /\ flight' = [flight EXCEPT ![i] = Routed(@)]
  /\ UNCHANGED <<store, app, res>>
  /\ UNCHANGED lifecycleVars

\* The timer of the latency of a route fires for a request.
RouteLatencyElapsed(i) ==
  /\ i \in DOMAIN flight
  /\ flight[i].stage = "routeLatency"
  /\ flight' = [flight EXCEPT ![i] = Handled(@)]
  /\ UNCHANGED <<store, app, res>>
  /\ UNCHANGED lifecycleVars

\* The configuration store changes the latency and the headers of the
\* environment.
EditEnvironment(latency, headers) ==
  /\ store' = [store EXCEPT !.latency = latency, !.headers = headers]
  /\ store' # store
  /\ UNCHANGED <<app, res, flight>>
  /\ UNCHANGED lifecycleVars

\* ------------------------------------------------------------ specification

Init ==
  /\ InitLifecycle
  /\ store = NoEnvironment
  /\ app = NotStarted
  /\ res = NoResponse
  /\ flight = <<>>

\* The calls and callbacks of the lifecycle, an environment started on any
\* port.
Next ==
  \/ \E e \in Envs, p \in Ports : Start(e, p)
  \/ \E s \in Servers : ListenCallback(s)
  \/ \E s \in Servers : ListenError(s)
  \/ \E e \in Envs : Stop(e)
  \/ \E s \in Servers : KillCallback(s)
  \/ \E e \in Envs : EnvironmentDeleted(e)

Spec == Init /\ [][Next]_vars

\* The port each environment is configured with when its requests are served.
PortOf(e) == IF e = "e1" THEN 3000 ELSE 3001

\* The servers started, stopped and serving requests, their logs cleared and
\* deleted; start is called for the environments that have no registered
\* instance and no pending listen callback.
NextRequests ==
  \/ \E e \in Envs : Start(e, PortOf(e)) /\ ~misuse'
  \/ \E s \in Servers : ListenCallback(s)
  \/ \E s \in Servers : ListenError(s)
  \/ \E e \in Envs : Stop(e)
  \/ \E s \in Servers : KillCallback(s)
  \/ \E s \in Servers : Request(s)
  \/ \E s \in Servers : ConnectionsClosed(s)
  \/ \E e \in Envs : ClearEnvironmentLogs(e)
  \/ \E e \in Envs : DeleteEnvironmentLogs(e)

SpecRequests == Init /\ [][NextRequests]_vars

\* One environment started, serving requests, stopped and deleted.
NextStop ==
  \/ \E p \in Ports : Start("e1", p)
  \/ \E s \in Servers : ListenCallback(s)
  \/ \E s \in Servers : ListenError(s)
  \/ Stop("e1")
  \/ \E s \in Servers : KillCallback(s)
  \/ \E s \in Servers : Request(s)
  \/ \E s \in Servers : ConnectionsClosed(s)
  \/ EnvironmentDeleted("e1")

\* Node runs the callback of close() once the listener is closed and no
\* connection is left open.
FairSpec ==
  Init /\ [][NextStop]_vars /\ \A s \in Servers : WF_vars(KillCallback(s))

\* The routes of an environment edited, registered and requested, with the
\* proxy off, on with a host that is no URL, on with an upstream.
Proxies ==
  {[proxyMode |-> FALSE, proxyHost |-> "http://upstream"],
   [proxyMode |-> TRUE, proxyHost |-> "upstream"],
   [proxyMode |-> TRUE, proxyHost |-> "http://upstream"]}

InitRoutes ==
  /\ InitLifecycle
  /\ \E prefix \in Prefixes, cors \in BOOLEAN, proxy \in Proxies :
       store = Environment(prefix, <<>>, <<>>, cors, proxy.proxyMode, proxy.proxyHost)
  /\ app = NotStarted
  /\ res = NoResponse
  /\ flight = <<>>

NextRoutes ==
  \/ \E method \in Methods, endpoint \in Endpoints : AddRoute(method, endpoint)
  \/ StartServing
  \/ StopServing
  \/ \E req \in Requests : Serve(req)

SpecRoutes == InitRoutes /\ [][NextRoutes]_vars

\* The header entries of the environment and of the route: a key with a
\* value or a template, a key with a space or a colon, a Content-Type, a
\* Content-Disposition, no key, no value, a template that does not parse.
Header(key, value) == [key |-> key, value |-> value]

EnvironmentHeaders ==
  {Header(<<"X-A">>, "v1"), Header(<<"X", " ", "A">>, "v1"),
   Header(ContentType, "application/json"), Header(<<>>, "v1"),
   Header(<<"X-A">>, "{{#bad"), Header(ContentDisposition, "inline")}

RouteHeaders ==
  {Header(<<"X-A">>, "{{method}}"), Header(<<"X", ":">>, "v2"),
   Header(ContentType, "application/json"), Header(<<"X-A">>, ""),
   Header(ContentDisposition, "inline")}

HeaderLists(entries) ==
  UNION {[1..n -> entries] : n \in 0..MaxHeaders}

\* The responses configured for the route: a body (a text, a JSON text, a
\* template that does not parse) or a file (templated, attached, missing).
Bodies ==
  {[body |-> "v1", filePath |-> "", sendFileAsBody |-> FALSE],
   [body |-> "[1]", filePath |-> "", sendFileAsBody |-> FALSE],
   [body |-> "{{#bad", filePath |-> "", sendFileAsBody |-> FALSE],
   [body |-> "", filePath |-> "data.json", sendFileAsBody |-> TRUE],
   [body |-> "", filePath |-> "photo.png", sendFileAsBody |-> FALSE],
   [body |-> "", filePath |-> "missing.json", sendFileAsBody |-> FALSE]}

\* One route GET /a and the CORS handler, whatever the header lists and the
\* response configured.
InitHeaders ==
  /\ InitLifecycle
  /\ \E environmentHeaders \in HeaderLists(EnvironmentHeaders),
        routeHeaders \in HeaderLists(RouteHeaders), b \in Bodies :
       store = Environment(<<>>,
                 << [Route(1, "get", <<"a">>) EXCEPT
                       !.headers = routeHeaders, !.body = b.body,
                       !.filePath = b.filePath,
                       !.sendFileAsBody = b.sendFileAsBody] >>,
                 environmentHeaders, TRUE, FALSE, "")
  /\ app = NotStarted
  /\ res = NoResponse
  /\ flight = <<>>

NextHeaders ==
  \/ StartServing
  \/ \E method \in Methods : Serve([method |-> method, path |-> <<"/", "a">>, body |-> <<>>])

SpecHeaders == InitHeaders /\ [][NextHeaders]_vars

\* The calls and callbacks of one environment whose caller starts it only
\* when it has no listener: never started, failed to bind, or stopped, the
\* callback of kill still pending or not.
NextRestart ==
  \/ \E p \in Ports : LiveOf(Uuid) = {} /\ Start(Uuid, p)
  \/ \E s \in Servers : ListenCallback(s)
  \/ \E s \in Servers : ListenError(s)
  \/ Stop(Uuid)
  \/ \E s \in Servers : KillCallback(s)
  \/ \E s \in Servers : Request(s)
  \/ \E s \in Servers : ConnectionsClosed(s)

SpecRestart == Init /\ [][NextRestart]_vars

\* The proxy of an environment with one route GET /a, for each setting of the
\* proxy and of CORS and for requests with and without a body.
ProxySettings == Proxies \cup {[proxyMode |-> TRUE, proxyHost |-> ""]}

RequestBodies == {<<>>, <<"a">>, <<"a", "eacute">>}

ProxyRequests ==
  [method : Methods,
   path : {<<"/", "a">>, <<"/", ":id">>, <<"/", "api", "/", "a">>},
   body : RequestBodies]

InitProxy ==
  /\ InitLifecycle
  /\ \E cors \in BOOLEAN, proxy \in ProxySettings :
       store = Environment(<<>>, <<Route(1, "get", <<"a">>)>>, <<>>, cors,
                           proxy.proxyMode, proxy.proxyHost)
  /\ app = NotStarted
  /\ res = NoResponse
  /\ flight = <<>>

NextProxy ==
  \/ StartServing
  \/ StopServing
  \/ \E req \in ProxyRequests : Serve(req)

SpecProxy == InitProxy /\ [][NextProxy]_vars

\* The store editing the routes, CORS and the proxy of an environment once it
\* is started, and the requests made to it.
EditedEndpoints == {<<"a">>, <<":id">>}

EditRequests ==
  [method : Methods, path : {<<"/", "a">>, <<"/", ":id">>}, body : {<<>>}]

InitEdits ==
  /\ InitLifecycle
  /\ \E routes \in { <<>>,
                      <<Route(1, "get", <<"a">>)>>,
                      <<Route(1, "options", <<"a">>), Route(2, "get", <<":id">>)>>,
                      <<Route(1, "get", <<"a">>), Route(2, "get", <<"a">>)>> },
        cors \in BOOLEAN :
       store = Environment(<<>>, routes, <<>>, cors, FALSE, "http://upstream")
  /\ app = NotStarted
  /\ res = NoResponse
  /\ flight = <<>>

NextEdits ==
  \/ StartServing
  \/ app.started /\ \E method \in Methods, endpoint \in EditedEndpoints :
                      AddRoute(method, endpoint)
  \/ app.started /\ \E i \in 1..MaxRoutes : RemoveRoute(i)
  \/ app.started /\ \E i \in 1..MaxRoutes : MoveRoute(i)
  \/ app.started /\ ToggleCors
  \/ app.started /\ \E proxy \in Proxies : SetProxy(proxy.proxyMode, proxy.proxyHost)
  \/ \E req \in EditRequests : Serve(req)

SpecEdits == InitEdits /\ [][NextEdits]_vars

\* The requests of an application through its middlewares while the store
\* edits the environment: one route GET /a with a latency, CORS set, the
\* proxy set or not; requests for the route, for the CORS handler and for
\* no route.
AllowOrigin == <<"Access-Control-Allow-Origin">>

\* The latency and the headers the store gives the environment: none, a
\* latency and an override of a CORS header, a header whose template fails.
Edits ==
  { [latency |-> 0, headers |-> <<>>],
    [latency |-> 100, headers |-> <<Header(AllowOrigin, "https://app")>>],
    [latency |-> 0, headers |-> <<Header(<<"X-A">>, "{{#bad")>>] }

MiddlewareRequests ==
  { [method |-> "get", path |-> <<"/", "a">>, body |-> <<>>],
    [method |-> "options", path |-> <<"/", "a">>, body |-> <<>>],
    [method |-> "get", path |-> <<"/", "(">>, body |-> <<>>] }

InitMiddlewares ==
  /\ InitLifecycle
  /\ \E proxy \in {p \in Proxies : IsValidURL(p.proxyHost)} :
       store = Environment(<<>>, << [Route(1, "get", <<"a">>) EXCEPT !.latency = 100] >>,
                           <<>>, TRUE, proxy.proxyMode, proxy.proxyHost)
  /\ app = NotStarted
  /\ res = NoResponse
  /\ flight = <<>>

NextMiddlewares ==
  \/ StartServing
  \/ \E req \in MiddlewareRequests : Receive(req)
  \/ \E i \in InFlight : LatencyElapsed(i)
  \/ \E i \in InFlight : RouteLatencyElapsed(i)
  \/ \E edit \in Edits : EditEnvironment(edit.latency, edit.headers)

SpecMiddlewares == InitMiddlewares /\ [][NextMiddlewares]_vars

\* A timer started by setTimeout fires.
FairMiddlewares ==
  /\ InitMiddlewares
  /\ [][NextMiddlewares]_vars
  /\ \A i \in InFlight : WF_vars(LatencyElapsed(i)) /\ WF_vars(RouteLatencyElapsed(i))


\* ------------------------------------------------------------------ claims

Entries(e) == environmentsLogs[e].entries

Min(a, b) == IF a < b THEN a ELSE b

\* The entries of a buffer are the latest requests logged in it, the newest
\* first, none missing in between; none is evicted before the maximum is
\* reached.
LatestFirst(entries) ==
  /\ \A i \in 1..Len(entries) : entries[i] = entries[1] - (i - 1)
  /\ Len(entries) > 0 /\ Len(entries) < maxLogsPerEnvironment
       => entries[Len(entries)] = 1

\* C1: a log buffer never holds more than Config.maxLogsPerEnvironment
\* entries; a request puts its entry at the head of the buffer of its
\* environment, the older entries follow in order, and at the maximum the
\* oldest one is gone.
C1_LogBufferBounded ==
  [][/\ \A e \in Envs :
          /\ Len(Entries(e))' <= maxLogsPerEnvironment
          /\ LatestFirst(Entries(e))'
     /\ \A s \in Servers : Request(s) =>
          LET e == srv[s].env
              old == Entries(e)
              new == Entries(e)'
          IN /\ new[1] = Newest(old) + 1
             /\ Len(new) = Min(Len(old) + 1, maxLogsPerEnvironment)
             /\ \A i \in 2..Len(new) : new[i] = old[i - 1]
             /\ \A o \in Envs \ {e} : environmentsLogs'[o] = environmentsLogs[o]
    ]_vars

\* After maxLogsPerEnvironment + 1 requests the first one is gone and the
\* last one is at the head.
C1_Witness ==
  \E e \in Envs :
    /\ last = Step("request", e, None, None)
    /\ Len(Entries(e)) = maxLogsPerEnvironment
    /\ Entries(e)[1] = maxLogsPerEnvironment + 1
    /\ \A i \in 1..Len(Entries(e)) : Entries(e)[i] # 1

AtMostOneListener == \A e \in Envs : Cardinality(LiveOf(e)) <= 1

\* C2 as stated: at most one live listener per environment, whatever the
\* calls.
C2_AtMostOneListenerAlways == AtMostOneListener

\* C2, amended: at most one live listener per environment, as long as start
\* is called only for an environment with no registered instance and no
\* pending listen callback.
C2_AtMostOneListener == ~misuse => AtMostOneListener

C2_Witness ==
  /\ ~misuse
  /\ last.op = "listening"
  /\ \A e \in Envs : Cardinality(LiveOf(e)) = 1

\* The alert of each listen error (Errors.PORT_ALREADY_USED,
\* Errors.PORT_INVALID, the message of any other error).
ExpectedAlert(code) ==
  CASE code = "EADDRINUSE" -> "PORT_ALREADY_USED"
    [] code = "EACCES" -> "PORT_INVALID"
    [] code = "OTHER" -> "error.message"

\* C3: a failed bind is reported as an alert told by its error code; the
\* failed instance is never registered, holds no port and no running=true
\* status is reported for it.
C3_BindFailureReported ==
  [][/\ \A s \in Servers : srv[s].st = "failing" =>
          /\ \A e \in Envs : instances[e] # s
          /\ ~Live(s)
     /\ \A s \in Servers : ListenError(s) =>
          /\ last'.alert = ExpectedAlert(srv[s].err)
          /\ last'.status = None
          /\ instances' = instances
          /\ \A x \in Servers \ {s} : srv'[x] = srv[x]
          /\ srv'[s].st = "free"
    ]_vars

\* An environment whose start failed on a port in use is started again on
\* that port, now free, and binds it.
C3_Witness ==
  /\ ~misuse
  /\ \E s, x \in Servers :
       /\ srv[s].st = "failing" /\ srv[s].err = "EADDRINUSE"
       /\ Live(x)
       /\ srv[x].env = srv[s].env /\ srv[x].port = srv[s].port

\* C4: a stop of a registered running instance completes: the listener is
\* closed and the connections destroyed at once, whatever requests are
\* suspended, and the kill callback then runs, removes the instance from the
\* registry and reports running=false.
C4_StopCompletes ==
  /\ \A s \in Servers : (srv[s].st = "closing") ~> (srv[s].st = "free")
  /\ [][/\ \A e \in Envs :
              (Stop(e) /\ instances[e] # NoInstance /\ srv[instances[e]].st = "running")
                => /\ srv'[instances[e]].st = "closing"
                   /\ srv'[instances[e]].conns # "open"
         /\ \A s \in Servers : KillCallback(s) =>
              /\ instances'[srv[s].env] = NoInstance
              /\ last'.status = "stopped"
        ]_vars

\* A server stopped while a request of it is suspended.
C4_Witness ==
  \E s \in Servers :
    /\ srv[s].st = "closing"
    /\ last = Step("stop", srv[s].env, None, None)
    /\ srv[s].conns = "destroyed"

\* C5: stop of an environment with no registered instance changes nothing
\* and reports nothing.
C5_StopUnregisteredNoOp ==
  [][\A e \in Envs : (instances[e] = NoInstance /\ Stop(e)) =>
       /\ srv' = srv
       /\ instances' = instances
       /\ environmentsLogs' = environmentsLogs
       /\ last'.status = None
       /\ last'.alert = None
    ]_vars

\* stop was called for an environment with no instance while the other one is
\* running with requests logged.
C5_Witness ==
  \E e \in Envs, o \in Envs :
    /\ last = Step("stop", e, None, None)
    /\ instances[e] = NoInstance
    /\ o # e
    /\ instances[o] # NoInstance
    /\ srv[instances[o]].st = "running"
    /\ Len(Entries(o)) > 0

CallbackPending(e) ==
  \E s \in Servers : srv[s].env = e /\ srv[s].st \in {"starting", "closing"}

\* C6: once an environment is deleted and its callbacks have run, no instance
\* of it is registered or listening and it has no log buffer.
C6_DeletedEnvironmentGone ==
  \A e \in Envs :
    (deleted[e] /\ ~CallbackPending(e)) =>
      /\ instances[e] = NoInstance
      /\ LiveOf(e) = {}
      /\ ~environmentsLogs[e].defined

\* The routes of the environment passed to start().
StartedRoutes == app.environment.routes

\* The request made to a route: its method, at prefix/endpoint.
RequestOf(route) ==
  [method |-> route.method, path |-> RoutePath(app.environment, route),
   body |-> <<>>]

\* C7: a route whose duplicates list is not empty in the environment passed
\* to start() is never registered: whatever the request, the response is not
\* from this route and does not carry its status; it is from another route,
\* the CORS handler, the proxy or it is a 404.
C7_DuplicatedNeverAnswers ==
  /\ \A i \in DOMAIN app.stack :
       app.stack[i].kind = "route" => app.stack[i].route.duplicates = {}
  /\ res.by # None =>
       /\ res.by \in {"route", "cors", "proxy", "notFound"}
       /\ \A i \in DOMAIN StartedRoutes :
            StartedRoutes[i].duplicates # {} =>
              /\ ~(res.by = "route" /\ res.route = StartedRoutes[i].uuid)
              /\ res.status # StartedRoutes[i].statusCode

\* A request made to a duplicated route of the started environment is
\* answered with a 404.
C7_Witness ==
  /\ app.started
  /\ res.by = "notFound"
  /\ \E i \in DOMAIN StartedRoutes :
       /\ StartedRoutes[i].duplicates # {}
       /\ res.req = RequestOf(StartedRoutes[i])

NoDuplicates == \A i \in DOMAIN StartedRoutes : StartedRoutes[i].duplicates = {}

\* The response is from this route and carries its status.
HandledBy(response, route) ==
  /\ response.by = "route"
  /\ response.route = route.uuid
  /\ response.status = route.statusCode

\* C8 as stated: with no duplicated route, a request with the method of a
\* route at its prefix/endpoint is handled by this route, whatever the other
\* routes.
C8_EveryRouteReachable ==
  (res.by # None /\ NoDuplicates) =>
    \A i \in DOMAIN StartedRoutes :
      res.req = RequestOf(StartedRoutes[i]) => HandledBy(res, StartedRoutes[i])

\* An earlier route of the same method whose pattern compiles and matches the
\* path.
Shadowed(i, path) ==
  \E j \in 1..(i - 1) :
    /\ StartedRoutes[j].method = StartedRoutes[i].method
    /\ \A k \in DOMAIN RoutePath(app.environment, StartedRoutes[j]) :
         RoutePath(app.environment, StartedRoutes[j])[k] # "("
    /\ Matches(RoutePath(app.environment, StartedRoutes[j]), path)

\* C8, amended: with no duplicated route, a request with the method of a
\* route at its prefix/endpoint is handled by this route and carries its
\* status, provided the pattern of the route compiles and no earlier route of
\* the same method matches that path.
C8_UnshadowedRouteReachable ==
  (res.by # None /\ NoDuplicates) =>
    \A i \in DOMAIN StartedRoutes :
      ( /\ res.req = RequestOf(StartedRoutes[i])
        /\ \A k \in DOMAIN res.req.path : res.req.path[k] # "("
        /\ ~Shadowed(i, res.req.path) )
      => HandledBy(res, StartedRoutes[i])

\* The last of several routes under a prefix, one with a parameter, is
\* requested and answers.
C8_Witness ==
  /\ app.started
  /\ NoDuplicates
  /\ app.environment.endpointPrefix # <<>>
  /\ Len(StartedRoutes) = MaxRoutes
  /\ \E i \in DOMAIN StartedRoutes : StartedRoutes[i].endpoint = <<":id">>
  /\ res.req = RequestOf(StartedRoutes[MaxRoutes])
  /\ HandledBy(res, StartedRoutes[MaxRoutes])

\* The entries of a header list that define a key (the key is a token, the
\* value is not empty), and the text rendered from the last of them.
EntriesOf(headers, key) ==
  {i \in DOMAIN headers :
     /\ headers[i].key = key
     /\ headers[i].value # ""
     /\ key # <<>>
     /\ \A k \in DOMAIN key : key[k] \in TokenFragments}

LastOf(headers, key, req) ==
  LET i == CHOOSE x \in EntriesOf(headers, key) :
             \A y \in EntriesOf(headers, key) : x >= y
  IN DummyJSONParser(headers[i].value, req).text

AnsweringRoute == StartedRoutes[res.route]

\* C9 as stated: in the response of a route, a key that the list of the
\* environment and the list of the route both define has the value of the
\* route.
C9_RouteValueAlways ==
  (res.by = "route" /\ res.sent) =>
    \A key \in HeaderKeys :
      ( /\ EntriesOf(app.environment.headers, key) # {}
        /\ EntriesOf(AnsweringRoute.headers, key) # {} )
      => res.headers[key] = LastOf(AnsweringRoute.headers, key, res.req)

ErrorMessages ==
  {"TEMPLATE_PARSE", "FILE_NOT_EXISTS", "JSON_PARSE", "MISSING_HELPER",
   "INVALID_CONTENT_TYPE"}

\* The headers the resolution of the body sets after the lists: the
\* Content-Type of an error response, the Content-Disposition of a file sent
\* as an attachment.
SetByBody(key) ==
  \/ key = ContentType /\ res.body \in ErrorMessages
  \/ /\ key = ContentDisposition
     /\ AnsweringRoute.filePath # ""
     /\ ~AnsweringRoute.sendFileAsBody
     /\ res.body \notin ErrorMessages

\* C9, amended: in the response of a route, a key that the list of the
\* environment and the list of the route both define has the value rendered
\* from the last entry of the route defining it, unless the resolution of the
\* body sets this header afterwards.
C9_RouteValueWins ==
  (res.by = "route" /\ res.sent) =>
    \A key \in HeaderKeys :
      ( /\ EntriesOf(app.environment.headers, key) # {}
        /\ EntriesOf(AnsweringRoute.headers, key) # {}
        /\ ~SetByBody(key) )
      => res.headers[key] = LastOf(AnsweringRoute.headers, key, res.req)

\* The environment sets X-A to v1, the route to the method of the request:
\* the response has the method.
C9_Witness ==
  /\ res.by = "route" /\ res.sent
  /\ EntriesOf(app.environment.headers, <<"X-A">>) # {}
  /\ LastOf(app.environment.headers, <<"X-A">>, res.req) = "v1"
  /\ EntriesOf(AnsweringRoute.headers, <<"X-A">>) # {}
  /\ res.headers[<<"X-A">>] = "get"

InvalidKey(key) == \E k \in DOMAIN key : key[k] \notin TokenFragments

\* A header list without its entries of invalid key.
Valid(headers) == SelectSeq(headers, LAMBDA h : ~InvalidKey(h.key))

\* C10: a key with a character out of the token set is in no response,
\* whatever its value, no alert is shown for it and the response is the one
\* of the same lists without the entries of invalid key: the other entries
\* are applied.
C10_InvalidKeySkipped ==
  /\ \A key \in HeaderNames : InvalidKey(key) => res.headers[key] = None
  /\ res.by = "route" =>
       res = RouteHandler(
               [app.environment EXCEPT !.headers = Valid(@)],
               [AnsweringRoute EXCEPT !.headers = Valid(@)], res.req)
  /\ res.by = "cors" =>
       res = CorsHandler([store EXCEPT !.headers = Valid(@)], res.req)

\* The list of the environment starts with an entry of invalid key and goes
\* on with X-A: the response sent has X-A and not the invalid key.
C10_Witness ==
  /\ res.sent
  /\ res.by \in {"route", "cors"}
  /\ Len(app.environment.headers) > 1
  /\ InvalidKey(app.environment.headers[1].key)
  /\ app.environment.headers[1].value # ""
  /\ app.environment.headers[2].key = <<"X-A">>
  /\ res.headers[<<"X-A">>] = "v1"
  /\ res.headers[app.environment.headers[1].key] = None

\* ---------------------------------------------------------------- C11

\* C11: while a request waits for the timer of the environment latency no
\* handler has taken it and nothing of a response exists; while it waits for
\* the timer of its route's latency the route's response has no status code,
\* no header and no body and is not sent.
C11_LatencyBeforeResponse ==
  \A i \in DOMAIN flight :
    /\ flight[i].stage = "latency" =>
         flight[i].handler = 0 /\ flight[i].response = NoResponse
    /\ flight[i].stage = "routeLatency" =>
         /\ app.stack[flight[i].handler].kind = "route"
         /\ flight[i].response.status = 0
         /\ flight[i].response.headers = NoHeaders
         /\ flight[i].response.body = ""
         /\ ~flight[i].response.sent

\* A request answered by its route after both waits, another one still in
\* the wait of its route.
C11_Witness ==
  \E i, j \in DOMAIN flight :
    /\ flight[i].stage = "answered" /\ flight[i].response.by = "route"
    /\ flight[i].response.status = 201 /\ flight[i].response.body = "v1"
    /\ flight[j].stage = "routeLatency" /\ flight[j].routeLatency = 100

\* ---------------------------------------------------------------- C12

Range(entries) == {entries[k] : k \in DOMAIN entries}

\* C12: a step in which the application receives a request puts exactly one
\* new entry in the buffer of the environment, first, while the request is
\* held by the timer of the environment latency with no handler run yet; no
\* other step of a request changes the buffer; so the buffer holds one entry
\* for each request received (up to its capacity) whatever answered it.
C12_OneLogEntryPerRequest ==
  /\ [](Len(Entries(Uuid)) = Min(Len(flight), maxLogsPerEnvironment))
  /\ [][IF Len(flight') > Len(flight)
        THEN LET old == environmentsLogs[Uuid].entries
                 new == environmentsLogs'[Uuid].entries
                 request == flight'[Len(flight')]
             IN /\ Len(flight') = Len(flight) + 1
                /\ Len(new) >= 1
                /\ new[1] \notin Range(old)
                /\ \A k \in 2..Len(new) : new[k] \in Range(old)
                /\ request.stage = "latency"
                /\ request.handler = 0
                /\ request.response = NoResponse
        ELSE environmentsLogs' = environmentsLogs]_vars

\* Two requests logged, one answered by the CORS handler and one by nothing.
C12_Witness ==
  /\ Len(Entries(Uuid)) = 2
  /\ \E i, j \in DOMAIN flight :
       /\ flight[i].response.by = "cors" /\ flight[i].response.sent
       /\ flight[j].response.by = "notFound" /\ flight[j].response.status = 404

\* ---------------------------------------------------------------- C13

\* The registered routes of method OPTIONS whose pattern matches a path.
OptionsRoutes(path) ==
  {i \in DOMAIN StartedRoutes :
     /\ StartedRoutes[i].method = "options"
     /\ StartedRoutes[i].duplicates = {}
     /\ \A k \in DOMAIN RoutePath(app.environment, StartedRoutes[i]) :
          RoutePath(app.environment, StartedRoutes[i])[k] # "("
     /\ Matches(RoutePath(app.environment, StartedRoutes[i]), path)}

\* C13: with CORS set in the environment started, an OPTIONS request whose
\* path matches a registered OPTIONS route is answered by such a route, with
\* its status code and body; an OPTIONS request matching none is answered by
\* the CORS handler with status 200, and the CORS handler answers no other
\* request.
C13_OptionsRouteNotShadowed ==
  (res.by # None /\ app.environment.cors) =>
    /\ res.req.method = "options" =>
         IF OptionsRoutes(res.req.path) # {}
         THEN /\ \E i \in OptionsRoutes(res.req.path) : HandledBy(res, StartedRoutes[i])
              /\ res.body = "v1"
         ELSE res.by = "cors" /\ res.status = 200
    /\ res.by = "cors" => res.req.method = "options"

\* An OPTIONS request answered by a route of an environment with CORS set.
C13_Witness ==
  /\ app.started /\ app.environment.cors
  /\ res.req.method = "options"
  /\ res.by = "route" /\ res.status > 200 /\ res.sent

\* ---------------------------------------------------------------- C14

\* The value CORSHeaders gives a key.
Baseline(key) ==
  CORSHeaders[CHOOSE k \in DOMAIN CORSHeaders : CORSHeaders[k].key = key].value

\* C14: in the step in which the CORS handler answers a request with status
\* 200, each of the CORS headers of the response has the value of the last
\* entry defining it in the header list the store holds for the environment
\* in that step, and the value of CORSHeaders when that list defines none.
C14_PreflightHeadersLive ==
  [][\A i \in DOMAIN flight :
       ( /\ flight[i].stage = "latency"
         /\ flight'[i].response.by = "cors"
         /\ flight'[i].response.status = 200 )
       => \A k \in DOMAIN CORSHeaders :
            LET key == CORSHeaders[k].key
            IN flight'[i].response.headers[key] =
                 IF EntriesOf(store.headers, key) # {}
                 THEN LastOf(store.headers, key, flight[i].req)
                 ELSE Baseline(key)]_vars

\* A preflight answered with the override of a header list edited after the
\* start of an environment that had no header.
C14_Witness ==
  /\ app.started /\ app.environment.headers = <<>>
  /\ \E i \in DOMAIN flight :
       /\ flight[i].response.by = "cors" /\ flight[i].response.status = 200
       /\ flight[i].response.headers[AllowOrigin] = "https://app"
       /\ flight[i].response.headers[<<"Access-Control-Allow-Headers">>] = "Content-Type"

\* ---------------------------------------------------------------- C15

\* C15: the environment latency a request waited for and the environment
\* headers applied to its response, by its route or by the CORS handler, are
\* those of one of the values of the environment read for it.
C15_OneSnapshotPerRequest ==
  \A i \in DOMAIN flight :
    flight[i].response.by \in {"route", "cors"} =>
      \E environment \in flight[i].read :
        /\ environment.latency = flight[i].latency
        /\ environment.headers = flight[i].headers

\* ---------------------------------------------------------------- C16

\* An entry that setHeaders applies and whose value does not parse.
FailingEntry(headers, req) ==
  \E i \in DOMAIN headers :
    /\ i \in EntriesOf(headers, headers[i].key)
    /\ DummyJSONParser(headers[i].value, req).error = "Parse error"

\* The renderer fails with a parse error on a template of a route: a header
\* value, the body, the path of the file or the content of the file.
TemplateFails(environment, route, req) ==
  \/ FailingEntry(environment.headers, req)
  \/ FailingEntry(route.headers, req)
  \/ route.filePath = "" /\ DummyJSONParser(route.body, req).error = "Parse error"
  \/ /\ route.filePath # ""
     /\ \/ DummyJSONParser(route.filePath, req).error = "Parse error"
        \/ /\ route.filePath \in Files
           /\ MimeLookup(route.filePath) \in mimeTypesWithTemplating
           /\ DummyJSONParser(FileContent(route.filePath), req).error = "Parse error"

\* C16: the response of a route with a template that fails with a parse
\* error is sent, is plain text, carries Errors.TEMPLATE_PARSE and raised the
\* alert of this message.
C16_TemplateParseReported ==
  (res.by = "route" /\ TemplateFails(app.environment, AnsweringRoute, res.req)) =>
    /\ res.sent
    /\ res.headers[ContentType] = "text/plain"
    /\ res.body = "TEMPLATE_PARSE"
    /\ res.alert = "TEMPLATE_PARSE"

\* ---------------------------------------------------------------- C17

\* C17: every request received is eventually answered, whatever fails in the
\* handler of its route.
C17_EveryRequestAnswered ==
  \A i \in InFlight :
    (i \in DOMAIN flight) ~> (i \in DOMAIN flight /\ flight[i].response.sent)

\* ---------------------------------------------------------------- C18

\* The registered routes taking a request.
RoutesTaking(req) ==
  {i \in DOMAIN StartedRoutes :
     /\ StartedRoutes[i].method = req.method
     /\ StartedRoutes[i].duplicates = {}
     /\ \A k \in DOMAIN RoutePath(app.environment, StartedRoutes[i]) :
          RoutePath(app.environment, StartedRoutes[i])[k] # "("
     /\ Matches(RoutePath(app.environment, StartedRoutes[i]), req.path)}

ProxyEnabled ==
  /\ app.environment.proxyMode
  /\ app.environment.proxyHost \in AbsoluteURLs

\* The request is made to the upstream with the body of the request and its
\* length in bytes, and the response of the upstream is relayed.
Forwarded ==
  /\ res.by = "proxy" /\ res.sent /\ res.body = "upstream"
  /\ res.proxyReq.body = res.req.body
  /\ res.req.body # <<>> =>
       res.proxyReq.contentLength =
         Len(res.req.body) +
           Cardinality({k \in DOMAIN res.req.body : res.req.body[k] = "eacute"})

NeverForwarded == res.by # "proxy" /\ res.proxyReq = None

\* C18 as stated: with the proxy mode set and a valid upstream every request
\* that no registered route takes is forwarded; otherwise none is.
C18_UnmatchedAlwaysForwarded ==
  res.by # None =>
    IF ProxyEnabled
    THEN RoutesTaking(res.req) = {} => Forwarded
    ELSE NeverForwarded

\* C18, amended: with the proxy mode set and a valid upstream every request
\* that no registered route takes and that the CORS handler does not answer
\* (an OPTIONS request of an environment with CORS set) is forwarded, with its
\* body and the length of its body in bytes; with the proxy mode unset, no
\* upstream or an upstream that is not a valid URL the environment starts and
\* no request is forwarded.
C18_UnmatchedForwardedAfterCors ==
  res.by # None =>
    IF ProxyEnabled
    THEN ( /\ RoutesTaking(res.req) = {}
           /\ ~(app.environment.cors /\ res.req.method = "options") )
         => Forwarded
    ELSE app.started /\ NeverForwarded

\* A request with a body of three bytes in two characters forwarded by an
\* environment with CORS set.
C18_Witness ==
  /\ app.environment.cors
  /\ res.by = "proxy"
  /\ res.req.body = <<"a", "eacute">>
  /\ res.proxyReq.contentLength = 3

\* ---------------------------------------------------------------- C19

\* The handler that the environment passed to start() gives a request: its
\* first registered route taking the request, else the CORS handler for an
\* OPTIONS request if it had CORS set, else the proxy if it had a valid one,
\* else none.
First(indices) == CHOOSE i \in indices : \A j \in indices : i <= j

StartedHandler(req) ==
  IF RoutesTaking(req) # {} THEN "route"
  ELSE IF app.environment.cors /\ req.method = "options" THEN "cors"
  ELSE IF ProxyEnabled THEN "proxy"
  ELSE "notFound"

\* C19: whatever the store has made of the environment since the start (a
\* route added, removed or moved, the duplicates computed again, CORS or the
\* proxy changed), a request is answered by the handler that the environment
\* passed to start() gives it: the same kind of handler and, for a route,
\* the same route with its status code.
C19_RoutingFixedAtStart ==
  res.by # None =>
    /\ res.by = StartedHandler(res.req)
    /\ res.by = "route" =>
         HandledBy(res, StartedRoutes[First(RoutesTaking(res.req))])

\* The only route the environment was started with is removed from the
\* store, another one is added, and a request is still answered by the
\* removed one.
C19_Witness ==
  /\ app.started
  /\ Len(StartedRoutes) = 1
  /\ \A i \in DOMAIN store.routes : store.routes[i].endpoint # <<"a">>
  /\ store.routes # <<>>
  /\ store.cors # app.environment.cors
  /\ res.by = "route" /\ res.status = 201 /\ res.req.path = <<"/", "a">>

\* ---------------------------------------------------------------- C20

\* C20: once no listen callback, no 'error' event and no kill callback is
\* pending for the environment, its registry entry is a server exactly when
\* it has a listener, this server is the listener, and the running flag last
\* reported is true exactly then.
C20_RegistryAgreesWithListener ==
  LET e == Uuid
  IN (\A s \in Servers :
        srv[s].env = e => srv[s].st \notin {"starting", "failing", "closing"})
     => /\ instances[e] # NoInstance <=> LiveOf(e) # {}
        /\ instances[e] # NoInstance => instances[e] \in LiveOf(e)
        /\ running <=> instances[e] # NoInstance

====
